---- MODULE Spec2Model ----
(***************************************************************************)
(* kgo: extraction of command-line grammars from mdoc manual pages         *)
(* (src/main.go).  A Go string is a sequence of one-character strings, so  *)
(* that prefix tests, substring tests, splitting, trimming, upper-casing   *)
(* and the regular expressions are computed character by character.        *)
(* Indices named i, start, usagePattern are Go's 0-based values; At and    *)
(* SliceFrom translate them to the 1-based sequences of TLA+.              *)
(***************************************************************************)
EXTENDS Integers, Sequences, FiniteSets, TLC

VARIABLES rawlines, pc, i, start, synopsis, usagePattern, picked,
          name, command, err,
          line, stack, result

vars == <<rawlines, pc, i, start, synopsis, usagePattern, picked,
          name, command, err, line, stack, result>>

docVars == <<rawlines, i, start, synopsis, usagePattern, picked,
             name, command, err>>

paramVars == <<line, stack, result>>

(***************************************************************************)
(* Bounds of the model.                                                    *)
(***************************************************************************)
MaxLines == 4

MaxTokens == 4

(***************************************************************************)
(* Go's string and slice primitives.                                       *)
(***************************************************************************)
At(s, k) == s[k + 1]

SliceFrom(s, k) == SubSeq(s, k + 1, Len(s))

HasPrefix(s, prefix) ==
    /\ Len(s) >= Len(prefix)
    /\ SubSeq(s, 1, Len(prefix)) = prefix

Contains(s, substr) ==
    \E k \in 0..(Len(s) - Len(substr)) :
        SubSeq(s, k + 1, k + Len(substr)) = substr

RECURSIVE Split(_, _)
Split(s, sep) ==
    IF \E k \in 1..Len(s) : s[k] = sep
    THEN LET n == CHOOSE m \in 1..Len(s) :
                      s[m] = sep /\ \A j \in 1..(m - 1) : s[j] # sep
         IN  <<SubSeq(s, 1, n - 1)>> \o Split(SubSeq(s, n + 1, Len(s)), sep)
    ELSE <<s>>

RECURSIVE TrimLeft(_, _)
TrimLeft(s, cutset) ==
    IF Len(s) > 0 /\ s[1] \in cutset THEN TrimLeft(Tail(s), cutset) ELSE s

LowerLetters ==
    <<"a", "b", "c", "d", "e", "f", "g", "h", "i", "j", "k", "l", "m",
      "n", "o", "p", "q", "r", "s", "t", "u", "v", "w", "x", "y", "z">>

UpperLetters ==
    <<"A", "B", "C", "D", "E", "F", "G", "H", "I", "J", "K", "L", "M",
      "N", "O", "P", "Q", "R", "S", "T", "U", "V", "W", "X", "Y", "Z">>

Digits == {"0", "1", "2", "3", "4", "5", "6", "7", "8", "9"}

Range(f) == {f[k] : k \in DOMAIN f}

ToUpperChar(c) ==
    IF c \in Range(LowerLetters)
    THEN UpperLetters[CHOOSE k \in DOMAIN LowerLetters : LowerLetters[k] = c]
    ELSE c

ToUpper(s) == [k \in DOMAIN s |-> ToUpperChar(s[k])]

\* the classes [a-z] and \w of Go's regexp syntax
LowerClass == Range(LowerLetters)

WordClass == Range(LowerLetters) \cup Range(UpperLetters) \cup Digits \cup {"_"}

(***************************************************************************)
(* String literals of the program.                                         *)
(***************************************************************************)
DotNm == <<".", "N", "m">>

DotOp == <<".", "O", "p">>

DotAr == <<".", "A", "r">>

DotFl == <<".", "F", "l">>

DotSh == <<".", "S", "h">>

DotSH == <<".", "S", "H">>

StrSynopsis == <<"s", "y", "n", "o", "p", "s", "i", "s">>

StrOp == <<"O", "p">>

StrAr == <<"A", "r">>

StrFl == <<"F", "l">>

StrFiles == <<"f", "i", "l", "e", "s">>

StrDash == <<"-">>

knownMacros == <<DotNm, DotOp, DotAr, DotFl>>

NoError == "nil"

NoSyntaxesFound == "No syntaxes found"

(***************************************************************************)
(* Line classification.                                                    *)
(***************************************************************************)
quoteString(s) == <<"\"">> \o s \o <<"\"">>

pass(s) == s

\* modfunctions := {quoteString, pass, strings.ToUpper}
modfunctions(k, s) ==
    CASE k = 1 -> quoteString(s)
      [] k = 2 -> pass(s)
      [] k = 3 -> ToUpper(s)

\* shfunc(".Sh") + " " + synfunc("synopsis"), for every pair of modfunctions
synopsisHeadings ==
    {modfunctions(shfunc, DotSh) \o <<" ">> \o modfunctions(synfunc, StrSynopsis) :
        shfunc \in 1..3, synfunc \in 1..3}

isSynopsisLine(l) == \E h \in synopsisHeadings : HasPrefix(l, h)

\* regexp "^\.Nm( \w+)?" : some prefix of the line is ".Nm", optionally
\* followed by a space and one or more word characters
isNameLine(l) ==
    \E n \in 0..Len(l) :
        \/ SubSeq(l, 1, n) = DotNm
        \/ /\ n >= 5
           /\ SubSeq(l, 1, 4) = DotNm \o <<" ">>
           /\ \A k \in 5..n : l[k] \in WordClass

\* variant: the loop falls through to "return true"
compliantLineAlways(l) ==
    \/ \E k \in DOMAIN knownMacros : Contains(l, knownMacros[k])
    \/ TRUE

compliantLine(l) ==
    \E k \in DOMAIN knownMacros : Contains(l, knownMacros[k])

isSectionLine(l) == HasPrefix(l, DotSh) \/ HasPrefix(l, DotSH)

(***************************************************************************)
(* NameResolver.                                                           *)
(***************************************************************************)
\* variant: the pattern without its "^" anchor, "\.Nm ([a-z]+)$"
FindNameSubmatchUnanchored(l) ==
    LET S == {k \in 1..Len(l) :
                 /\ Len(l) - k + 1 >= 5
                 /\ SubSeq(l, k, k + 3) = DotNm \o <<" ">>
                 /\ \A j \in (k + 4)..Len(l) : l[j] \in LowerClass}
    IN  IF S = {}
        THEN <<>>
        ELSE LET k == CHOOSE n \in S : \A j \in S : n <= j
             IN  << <<SubSeq(l, k, Len(l)), SubSeq(l, k + 4, Len(l))>> >>

\* re.FindAllStringSubmatch(line, -1) for "^\.Nm ([a-z]+)$": the list of
\* matches, each <<whole match, group 1>>; anchored at both ends, so the
\* only possible match is the whole line
FindNameSubmatch(l) ==
    IF /\ Len(l) >= 5
       /\ SubSeq(l, 1, 4) = DotNm \o <<" ">>
       /\ \A k \in 5..Len(l) : l[k] \in LowerClass
    THEN << <<l, SubSeq(l, 5, Len(l))>> >>
    ELSE <<>>

RECURSIVE getDefinedNameFrom(_, _)
getDefinedNameFrom(lines, k) ==
    IF k >= Len(lines)
    THEN <<>>
    ELSE LET res == FindNameSubmatch(At(lines, k))
         IN  IF Len(res) > 0
             THEN At(Split(At(At(res, 0), 0), " "), 1)
             ELSE getDefinedNameFrom(lines, k + 1)

getDefinedName(lines) == getDefinedNameFrom(lines, 0)

(***************************************************************************)
(* ParameterTreeBuilder.  A *Parameter is <<>> (nil) or <<p>>.  The loop   *)
(* state st is the pair of locals (p, err) of one call.                    *)
(***************************************************************************)
EmptyParameter ==
    [name |-> <<>>, optional |-> FALSE, nospace |-> FALSE,
     hasargument |-> FALSE, argument |-> <<>>,
     hasflags |-> FALSE, flags |-> <<>>,
     hasparameter |-> FALSE, parameter |-> <<>>]

NewCall == [p |-> EmptyParameter, err |-> NoError]

tokenAt(tokens, k) == TrimLeft(At(tokens, k), {"."})

\* variant: the recursive call skips the triggering token, tokens[i+1:]
nestedTokensSkip(tokens, k) == SliceFrom(tokens, k + 1)

\* variant: the recursive call starts one token early, tokens[i-1:]
nestedTokensBack(tokens, k) == SliceFrom(tokens, k - 1)

\* the argument of the recursive call, tokens[i:]
nestedTokens(tokens, k) == SliceFrom(tokens, k)

\* p.hasparameter = true
markNested(st) == [st EXCEPT !.p.hasparameter = TRUE]

\* variant: the test reads "if err == nil"
storeNestedOnNil(st, tp, e) ==
    IF st.err = NoError
    THEN [st EXCEPT !.err = e]
    ELSE [st EXCEPT !.p.parameter = <<tp>>]

\* if err != nil { err = e } else { p.parameter = &tp }
storeNested(st, tp, e) ==
    IF st.err # NoError
    THEN [st EXCEPT !.err = e]
    ELSE [st EXCEPT !.p.parameter = <<tp>>]

RECURSIVE buildParameter(_)

attachNested(st, tokens, k) ==
    LET r == buildParameter(nestedTokens(tokens, k))
    IN  storeNested(markNested(st), r.p, r.err)

\* the "Op" sighting that recurses
opRecurses(st, tokens, k) ==
    /\ tokenAt(tokens, k) = StrOp
    /\ st.p.optional
    /\ ~st.p.hasparameter

opBranch(st, tokens, k) ==
    IF tokenAt(tokens, k) = StrOp
    THEN IF ~st.p.optional
         THEN [st EXCEPT !.p.optional = TRUE]
         ELSE IF ~st.p.hasparameter
              THEN attachNested(st, tokens, k)
              ELSE st
    ELSE st

arBranch(st, tokens, k) ==
    IF tokenAt(tokens, k) = StrAr /\ ~st.p.hasargument
    THEN IF ~st.p.hasargument
         THEN [st EXCEPT !.p.hasargument = TRUE,
                         !.p.argument = IF Len(tokens) > k + 1
                                        THEN At(tokens, k + 1)
                                        ELSE StrFiles]
         ELSE IF ~st.p.hasparameter
              THEN attachNested(st, tokens, k)
              ELSE st
    ELSE st

flBranch(st, tokens, k) ==
    IF tokenAt(tokens, k) = StrFl /\ ~st.p.hasflags
    THEN IF ~st.p.hasflags
         THEN [st EXCEPT !.p.hasflags = TRUE,
                         !.p.flags = IF Len(tokens) > k + 1
                                     THEN At(tokens, k + 1)
                                     ELSE StrDash]
         ELSE IF ~st.p.hasparameter
              THEN attachNested(st, tokens, k)
              ELSE st
    ELSE st

RECURSIVE buildParameterLoop(_, _, _)
buildParameterLoop(tokens, k, st) ==
    IF k >= Len(tokens)
    THEN st
    ELSE buildParameterLoop(tokens, k + 1,
             flBranch(arBranch(opBranch(st, tokens, k), tokens, k), tokens, k))

buildParameter(tokens) == buildParameterLoop(tokens, 0, NewCall)

(***************************************************************************)
(* SyntaxAssembler and CommandAssembler.                                   *)
(***************************************************************************)
\* variant: every parameter passes
isValidParameterAlways(p) ==
    \/ p.optional \/ p.nospace \/ p.hasflags \/ p.hasargument \/ p.hasparameter
    \/ TRUE

isValidParameter(p) ==
    p.optional \/ p.nospace \/ p.hasflags \/ p.hasargument \/ p.hasparameter

isValidSyntax(s) == Len(s.parameters) > 0

RECURSIVE buildSyntaxLoop(_, _, _)
buildSyntaxLoop(lines, k, acc) ==
    IF k >= Len(lines)
    THEN acc
    ELSE LET r == buildParameter(Split(At(lines, k), " "))
         IN  buildSyntaxLoop(lines, k + 1,
                 IF r.err # NoError
                 THEN [acc EXCEPT !.err = r.err]
                 ELSE IF isValidParameter(r.p)
                      THEN [acc EXCEPT !.syn.parameters = Append(@, r.p)]
                      ELSE acc)

buildSyntax(lines) ==
    buildSyntaxLoop(lines, 0, [syn |-> [parameters |-> <<>>], err |-> NoError])

RECURSIVE buildCommandLoop(_, _, _)
buildCommandLoop(paramLines, k, acc) ==
    IF k >= Len(paramLines)
    THEN acc
    ELSE LET r == buildSyntax(At(paramLines, k))
         IN  buildCommandLoop(paramLines, k + 1,
                 IF r.err # NoError
                 THEN [acc EXCEPT !.err = r.err]
                 ELSE IF isValidSyntax(r.syn)
                      THEN [acc EXCEPT !.syntax = Append(@, r.syn)]
                      ELSE acc)

buildCommand(nm, paramLines) ==
    LET acc == buildCommandLoop(paramLines, 0,
                                [syntax |-> <<>>, err |-> NoError])
    IN  [command |-> [name |-> nm, syntaxes |-> acc.syntax],
         err |-> IF Len(acc.syntax) = 0 THEN NoSyntaxesFound ELSE acc.err]

(***************************************************************************)
(* Input documents, as loadFileToLines returns them: every sequence of     *)
(* 1..MaxLines lines of LinePool, and the two documents of the grouping    *)
(* example (heading on the first line, heading on the second).             *)
(***************************************************************************)
LineSynopsis == DotSh \o <<" ", "S", "Y", "N", "O", "P", "S", "I", "S">>

LineUpperSynopsis ==
    DotSH \o <<" ", "\"", "s", "y", "n", "o", "p", "s", "i", "s", "\"">>

LineOtherSection == DotSh \o <<" ", "N", "A", "M", "E">>

LineNmFoo == DotNm \o <<" ", "f", "o", "o">>

LineOpFlX == DotOp \o <<" ", "F", "l", " ", "x">>

LineArFile == DotAr \o <<" ", "f", "i", "l", "e">>

LineText == <<"t", "e", "x", "t">>

LineIndentedNm == <<" ">> \o LineNmFoo

LineNmLs == DotNm \o <<" ", "l", "s">>

LinePool ==
    {LineSynopsis, LineUpperSynopsis, LineOtherSection, LineNmFoo, LineNmLs,
     LineOpFlX, LineArFile, LineText, LineIndentedNm}

ExampleBody ==
    <<LineNmFoo, LineOpFlX, LineNmFoo, LineArFile, LineOtherSection>>

ExampleDocFirst == <<LineSynopsis>> \o ExampleBody

ExampleDocSecond == <<LineText, LineSynopsis>> \o ExampleBody

Docs ==
    UNION {[1..n -> LinePool] : n \in 1..MaxLines}
        \cup {ExampleDocFirst, ExampleDocSecond}

(***************************************************************************)
(* manfileToCommand: getSynopsisLines one loop iteration at a time, then   *)
(* getDefinedName, then buildCommand.  picked records the index of every   *)
(* line appended to synopsis, in the order of the appends.                 *)
(***************************************************************************)
Init ==
    /\ rawlines \in Docs
    /\ pc = "scan"
    /\ i = 0
    /\ start = 0
    /\ synopsis = <<>>
    /\ usagePattern = -1
    /\ picked = <<>>
    /\ name = <<>>
    /\ command = [name |-> <<>>, syntaxes |-> <<>>]
    /\ err = NoError
    /\ line = <<>>
    /\ stack = <<>>
    /\ result = NewCall

\* if isSynopsisLine(line) { start = i; continue }
FoundHeading ==
    /\ pc = "scan"
    /\ i < Len(rawlines)
    /\ isSynopsisLine(At(rawlines, i))
    /\ start' = i
    /\ i' = i + 1
    /\ UNCHANGED <<rawlines, pc, synopsis, usagePattern, picked, name,
                   command, err, paramVars>>

\* start == 0: nothing is done with the line
BeforeSynopsis ==
    /\ pc = "scan"
    /\ i < Len(rawlines)
    /\ ~isSynopsisLine(At(rawlines, i))
    /\ start = 0
    /\ i' = i + 1
    /\ UNCHANGED <<rawlines, pc, start, synopsis, usagePattern, picked, name,
                   command, err, paramVars>>

\* variant: the name-line test is missing
opensGroupFirstOnly(l, up) == up = -1

\* isNameLine(line) || usagePattern == -1
opensGroup(l, up) == isNameLine(l) \/ up = -1

CollectLine ==
    /\ pc = "scan"
    /\ i < Len(rawlines)
    /\ ~isSynopsisLine(At(rawlines, i))
    /\ start # 0
    /\ ~isSectionLine(At(rawlines, i))
    /\ compliantLine(At(rawlines, i))
    /\ LET l == At(rawlines, i)
           opened == opensGroup(l, usagePattern)
           syn1 == IF opened THEN Append(synopsis, <<>>) ELSE synopsis
           up1 == IF opened THEN usagePattern + 1 ELSE usagePattern
       IN  /\ synopsis' = [syn1 EXCEPT ![up1 + 1] = Append(@, l)]
           /\ usagePattern' = up1
    /\ picked' = Append(picked, i)
    /\ i' = i + 1
    /\ UNCHANGED <<rawlines, pc, start, name, command, err, paramVars>>

SkipLine ==
    /\ pc = "scan"
    /\ i < Len(rawlines)
    /\ ~isSynopsisLine(At(rawlines, i))
    /\ start # 0
    /\ ~isSectionLine(At(rawlines, i))
    /\ ~compliantLine(At(rawlines, i))
    /\ i' = i + 1
    /\ UNCHANGED <<rawlines, pc, start, synopsis, usagePattern, picked, name,
                   command, err, paramVars>>

\* break
NextSection ==
    /\ pc = "scan"
    /\ i < Len(rawlines)
    /\ ~isSynopsisLine(At(rawlines, i))
    /\ start # 0
    /\ isSectionLine(At(rawlines, i))
    /\ pc' = "name"
    /\ UNCHANGED <<docVars, paramVars>>

\* the range loop runs out of lines
ScanEnd ==
    /\ pc = "scan"
    /\ i >= Len(rawlines)
    /\ pc' = "name"
    /\ UNCHANGED <<docVars, paramVars>>

GetDefinedName ==
    /\ pc = "name"
    /\ name' = getDefinedName(rawlines)
    /\ pc' = "build"
    /\ UNCHANGED <<rawlines, i, start, synopsis, usagePattern, picked,
                   command, err, paramVars>>

BuildCommand ==
    /\ pc = "build"
    /\ LET r == buildCommand(name, synopsis)
       IN  /\ command' = r.command
           /\ err' = r.err
    /\ pc' = "done"
    /\ UNCHANGED <<rawlines, i, start, synopsis, usagePattern, picked, name,
                   paramVars>>

Next ==
    \/ FoundHeading
    \/ BeforeSynopsis
    \/ CollectLine
    \/ SkipLine
    \/ NextSection
    \/ ScanEnd
    \/ GetDefinedName
    \/ BuildCommand

Spec == Init /\ [][Next]_vars

(***************************************************************************)
(* One call buildParameter(strings.Split(line, " ")) as buildSyntax makes  *)
(* it, run with its call stack.  A frame holds a call's tokens, its loop   *)
(* index i and its locals p and err.  The "Ar" and "Fl" branches cannot    *)
(* recurse (their inner else is unreachable), so only an "Op" sighting     *)
(* pushes a frame; the caller resumes with the "Ar" and "Fl" tests of the  *)
(* same iteration.                                                         *)
(***************************************************************************)
TokenPool == {DotOp, StrOp, StrAr, StrFl, <<"x">>}

RECURSIVE Join(_, _)
Join(toks, sep) ==
    IF Len(toks) = 1
    THEN toks[1]
    ELSE toks[1] \o <<sep>> \o Join(Tail(toks), sep)

ExampleArLine ==
    Join(<<StrAr, <<"s", "r", "c">>, StrAr, <<"d", "s", "t">>>>, " ")

ParamLines ==
    {Join(toks, " ") : toks \in UNION {[1..n -> TokenPool] : n \in 1..MaxTokens}}
        \cup {ExampleArLine}

\* deepest call stack the model follows
MaxDepth == MaxTokens + 1

Frame(tokens) == [tokens |-> tokens, i |-> 0, p |-> EmptyParameter,
                  err |-> NoError]

Top == stack[Len(stack)]

Locals(f) == [p |-> f.p, err |-> f.err]

\* the rest of an iteration after the "Op" test, and the loop increment
finishIteration(f, st) ==
    LET st2 == flBranch(arBranch(st, f.tokens, f.i), f.tokens, f.i)
    IN  [f EXCEPT !.p = st2.p, !.err = st2.err, !.i = f.i + 1]

InitParam ==
    /\ line \in ParamLines
    /\ pc = "call"
    /\ stack = <<>>
    /\ result = NewCall
    /\ rawlines = <<>>
    /\ i = 0
    /\ start = 0
    /\ synopsis = <<>>
    /\ usagePattern = -1
    /\ picked = <<>>
    /\ name = <<>>
    /\ command = [name |-> <<>>, syntaxes |-> <<>>]
    /\ err = NoError

\* buildSyntax: buildParameter(strings.Split(line, " "))
CallBuildParameter ==
    /\ pc = "call"
    /\ stack' = <<Frame(Split(line, " "))>>
    /\ pc' = "loop"
    /\ UNCHANGED <<line, result, docVars>>

\* an iteration that makes no recursive call
Iterate ==
    /\ pc = "loop"
    /\ Top.i < Len(Top.tokens)
    /\ ~opRecurses(Locals(Top), Top.tokens, Top.i)
    /\ stack' = [stack EXCEPT ![Len(stack)] =
                    finishIteration(Top, opBranch(Locals(Top), Top.tokens, Top.i))]
    /\ UNCHANGED <<pc, line, result, docVars>>

\* p.hasparameter = true; tp, e := buildParameter(tokens[i:])
Recurse ==
    /\ pc = "loop"
    /\ Top.i < Len(Top.tokens)
    /\ opRecurses(Locals(Top), Top.tokens, Top.i)
    /\ Len(stack) < MaxDepth
    /\ stack' = Append([stack EXCEPT ![Len(stack)].p = markNested(Locals(Top)).p],
                       Frame(nestedTokens(Top.tokens, Top.i)))
    /\ UNCHANGED <<pc, line, result, docVars>>

\* return p, err to the caller, which stores it and finishes its iteration
Return ==
    /\ pc = "loop"
    /\ Len(stack) > 1
    /\ Top.i >= Len(Top.tokens)
    /\ LET caller == stack[Len(stack) - 1]
           st == storeNested(Locals(caller), Top.p, Top.err)
       IN  stack' = [SubSeq(stack, 1, Len(stack) - 1) EXCEPT
                        ![Len(stack) - 1] = finishIteration(caller, st)]
    /\ UNCHANGED <<pc, line, result, docVars>>

\* the outermost call returns
Finish ==
    /\ pc = "loop"
    /\ Len(stack) = 1
    /\ Top.i >= Len(Top.tokens)
    /\ result' = Locals(Top)
    /\ stack' = <<>>
    /\ pc' = "done"
    /\ UNCHANGED <<line, docVars>>

NextParam ==
    \/ CallBuildParameter
    \/ Iterate
    \/ Recurse
    \/ Return
    \/ Finish

SpecParam == InitParam /\ [][NextParam]_vars

\* the call stack computes the function buildParameter
StackComputesBuildParameter ==
    pc = "done" /\ line # <<>> => result = buildParameter(Split(line, " "))

(***************************************************************************)
(* Vocabulary of the properties.                                           *)
(***************************************************************************)
Tokens == Split(line, " ")

\* the (0-based) indices at which macro m is sighted in toks
Sightings(toks, m) == {k \in 0..(Len(toks) - 1) : tokenAt(toks, k) = m}

Min(S) == CHOOSE k \in S : \A j \in S : k <= j

SecondSighting(toks, m) == Min(Sightings(toks, m) \ {Min(Sightings(toks, m))})

\* no macro has been sighted twice among toks[0..k-1]
NoRepeatBefore(toks, k) ==
    \A m \in {StrOp, StrAr, StrFl} :
        Cardinality({j \in Sightings(toks, m) : j < k}) <= 1

RECURSIVE Depth(_)
Depth(p) == IF p.parameter = <<>> THEN 0 ELSE 1 + Depth(p.parameter[1])

\* the nodes of a tree, the root first
RECURSIVE Nodes(_)
Nodes(p) == IF p.parameter = <<>> THEN <<p>> ELSE <<p>> \o Nodes(p.parameter[1])

RECURSIVE Flatten(_)
Flatten(groups) ==
    IF groups = <<>> THEN <<>> ELSE Head(groups) \o Flatten(Tail(groups))

HasMacro(l) ==
    \E m \in {DotNm, DotOp, DotAr, DotFl} :
        \E k \in 1..Len(l) : k + 2 <= Len(l) /\ <<l[k], l[k + 1], l[k + 2]>> = m

HeadingIndices == {k \in 0..(Len(rawlines) - 1) : isSynopsisLine(At(rawlines, k))}

HasHeading == HeadingIndices # {}

FirstHeading == Min(HeadingIndices)

\* the first line after the first heading that starts with ".Sh" or ".SH",
\* or the end of the document
SectionEnd ==
    LET S == {k \in (FirstHeading + 1)..(Len(rawlines) - 1) :
                  HasPrefix(At(rawlines, k), DotSh)
                      \/ HasPrefix(At(rawlines, k), DotSH)}
    IN  IF S = {} THEN Len(rawlines) ELSE Min(S)

SectionBody == SubSeq(rawlines, FirstHeading + 2, SectionEnd)

ScanOver == pc \in {"name", "build", "done"}

(***************************************************************************)
(* Properties of getSynopsisLines (specification Spec).                    *)
(***************************************************************************)
ExampleGroups == <<<<LineNmFoo, LineOpFlX>>, <<LineNmFoo, LineArFile>>>>

\* C2: if the document has a synopsis heading, at any position including
\* the first line, the groups hold, in document order, exactly the lines
\* carrying a recognized macro that lie after the heading and before the
\* next section-heading line; the grouping example yields its two groups.
C2_GroupsCoverSection ==
    ScanOver =>
        /\ HasHeading => Flatten(synopsis) = SelectSeq(SectionBody, HasMacro)
        /\ rawlines \in {ExampleDocFirst, ExampleDocSecond}
               => synopsis = ExampleGroups

\* C3: once the heading has been found, no line at or after the first later
\* line starting with ".Sh" or ".SH" (a repeated SYNOPSIS heading included)
\* is in any group.
C3_StopsAtNextSection ==
    ScanOver /\ HasHeading =>
        \A j \in 1..Len(picked) : picked[j] < SectionEnd

\* C4: every group is non-empty; a line is the first of its group exactly
\* when it begins with ".Nm" or is the first line collected; the groups,
\* laid end to end, are the collected lines in the order they were read.
C4_GroupStarts ==
    /\ \A g \in 1..Len(synopsis) :
           /\ Len(synopsis[g]) >= 1
           /\ \A k \in 1..Len(synopsis[g]) :
                  (k = 1) <=> (\/ SubSeq(synopsis[g][k], 1, 3) = DotNm
                               \/ (g = 1 /\ k = 1))
    /\ Len(picked) = Len(Flatten(synopsis))
    /\ \A j \in 1..Len(picked) :
           /\ Flatten(synopsis)[j] = At(rawlines, picked[j])
           /\ j > 1 => picked[j - 1] < picked[j]

\* a result whose first group was opened by the fallback and whose second
\* group was opened by a name line
C4_Witness ==
    /\ pc = "done"
    /\ Len(synopsis) >= 2
    /\ SubSeq(synopsis[1][1], 1, 3) # DotNm
    /\ SubSeq(synopsis[2][1], 1, 3) = DotNm

\* C5: no group holds a line lacking all four macros; a document with no
\* synopsis heading, or with no line carrying a macro after it, yields no
\* group.
C5_MacroGating ==
    /\ \A g \in 1..Len(synopsis) : \A k \in 1..Len(synopsis[g]) :
           HasMacro(synopsis[g][k])
    /\ (/\ ScanOver
        /\ \/ ~HasHeading
           \/ \A k \in (FirstHeading + 1)..(Len(rawlines) - 1) :
                  ~HasMacro(At(rawlines, k)))
           => synopsis = <<>>

\* a line without macro lies between the heading and a collected line
C5_Witness ==
    /\ pc = "done"
    /\ Len(picked) >= 1
    /\ \E k \in (start + 1)..(picked[Len(picked)] - 1) :
           ~HasMacro(At(rawlines, k))

(***************************************************************************)
(* Properties of buildCommand and getDefinedName (specification Spec).     *)
(***************************************************************************)
Valid(p) ==
    p.optional \/ p.nospace \/ p.hasflags \/ p.hasargument \/ p.hasparameter

\* the group has a line whose Parameter is valid
YieldsSyntax(group) ==
    \E k \in 1..Len(group) : Valid(buildParameter(Split(group[k], " ")).p)

\* ".Nm" followed by one lowercase word, or ".Nm" alone
SelfNaming(l) ==
    /\ SubSeq(l, 1, 3) = DotNm
    /\ Len(l) > 3 => /\ l[4] = " "
                     /\ Len(l) > 4
                     /\ \A k \in 5..Len(l) : l[k] \in Range(LowerLetters)

\* C6: buildCommand fails with NoSyntaxesFound exactly when no group yields
\* a Syntax with a valid Parameter (so when every collected line is
\* self-naming); when it does not fail, syntaxes is non-empty, every Syntax
\* has a parameter and every Parameter is valid.
C6_NoSyntaxesIff ==
    pc = "done" =>
        /\ err \in {NoError, NoSyntaxesFound}
        /\ err = NoSyntaxesFound
               <=> ~\E g \in 1..Len(synopsis) : YieldsSyntax(synopsis[g])
        /\ (\A g \in 1..Len(synopsis) : \A k \in 1..Len(synopsis[g]) :
                SelfNaming(synopsis[g][k]))
               => err = NoSyntaxesFound
        /\ err = NoError =>
               /\ Len(command.syntaxes) >= 1
               /\ \A g \in 1..Len(command.syntaxes) :
                      /\ Len(command.syntaxes[g].parameters) >= 1
                      /\ \A k \in 1..Len(command.syntaxes[g].parameters) :
                             Valid(command.syntaxes[g].parameters[k])

\* a Command is returned from a synopsis that has a self-naming line, which
\* is filtered out of the Syntax of its group
C6_Witness ==
    /\ pc = "done"
    /\ err = NoError
    /\ SelfNaming(synopsis[1][1])
    /\ Len(command.syntaxes[1].parameters) < Len(synopsis[1])

Whitespace == {" ", "\t", "\n", "\r"}

RECURSIVE TrimSpace(_)
TrimSpace(l) ==
    IF Len(l) > 0 /\ l[1] \in Whitespace THEN TrimSpace(Tail(l))
    ELSE IF Len(l) > 0 /\ l[Len(l)] \in Whitespace
         THEN TrimSpace(SubSeq(l, 1, Len(l) - 1))
         ELSE l

\* the line is ".Nm ", one non-empty lowercase word, and nothing else
NameForm(l) ==
    /\ Len(l) >= 5
    /\ <<l[1], l[2], l[3], l[4]>> = <<".", "N", "m", " ">>
    /\ \A k \in 5..Len(l) : l[k] \in Range(LowerLetters)

NameWord(l) == SubSeq(l, 5, Len(l))

NameResolved == pc \in {"build", "done"}

\* C7 as stated: the name is the word of the first line that has the name
\* form after its surrounding whitespace is trimmed, and empty when there
\* is none.
C7_NameOfTrimmedLine ==
    NameResolved =>
        LET S == {k \in 1..Len(rawlines) : NameForm(TrimSpace(rawlines[k]))}
        IN  name = IF S = {} THEN <<>> ELSE NameWord(TrimSpace(rawlines[Min(S)]))

\* C7 amended: the name is the word of the first line that, untrimmed, has
\* the name form, and empty when there is none.
C7_NameOfExactLine ==
    NameResolved =>
        LET S == {k \in 1..Len(rawlines) : NameForm(rawlines[k])}
        IN  name = IF S = {} THEN <<>> ELSE NameWord(rawlines[Min(S)])

\* the name comes from the first of two lines of the name form with
\* different words, and a line that has the form only once trimmed
\* precedes them
C7_Witness ==
    /\ pc = "done"
    /\ \E a, b, c \in 1..Len(rawlines) :
           /\ a < b /\ b < c
           /\ ~NameForm(rawlines[a]) /\ NameForm(TrimSpace(rawlines[a]))
           /\ NameForm(rawlines[b]) /\ NameForm(rawlines[c])
           /\ NameWord(rawlines[b]) # NameWord(rawlines[c])
           /\ name = NameWord(rawlines[b])

(***************************************************************************)
(* Properties of buildParameter (specification SpecParam).                 *)
(***************************************************************************)
\* C1: when "Ar" (or "Fl") is sighted a second time at index i and no
\* nested parameter is attached yet, the result has the nested parameter
\* buildParameter(tokens[i:]); ["Ar","src","Ar","dst"] yields argument
\* "src" and the nested parameter built from ["Ar","dst"].
C1_SecondSightingNests ==
    pc = "done" =>
        /\ \A m \in {StrAr, StrFl} :
               (/\ Cardinality(Sightings(Tokens, m)) >= 2
                /\ NoRepeatBefore(Tokens, SecondSighting(Tokens, m)))
                   => /\ result.p.hasparameter
                      /\ result.p.parameter =
                             <<buildParameter(
                                   SliceFrom(Tokens, SecondSighting(Tokens, m))).p>>
        /\ line = ExampleArLine
               => /\ result.p.argument = <<"s", "r", "c">>
                  /\ result.p.parameter =
                         <<buildParameter(<<StrAr, <<"d", "s", "t">>>>).p>>

\* C8: the first "Op" sets optional; the second "Op", at index i, attaches
\* buildParameter(tokens[i:]) as the nested parameter, later ones leave it
\* as it is; every nested Parameter of the tree has optional set.
C8_OpNesting ==
    pc = "done" =>
        /\ Sightings(Tokens, StrOp) # {} => result.p.optional
        /\ Cardinality(Sightings(Tokens, StrOp)) >= 2
               => /\ result.p.hasparameter
                  /\ result.p.parameter =
                         <<buildParameter(
                               SliceFrom(Tokens, SecondSighting(Tokens, StrOp))).p>>
        /\ \A n \in 2..Len(Nodes(result.p)) : Nodes(result.p)[n].optional

\* three "Op" sightings: the nested parameter has a nested parameter
C8_Witness ==
    /\ pc = "done"
    /\ Cardinality(Sightings(Tokens, StrOp)) >= 3
    /\ Depth(result.p) = 2
    /\ result.p.parameter[1].optional

\* C9: every recursive call is made at an index of at least 1 on a strict
\* suffix of its caller's tokens, no call waits for ever (a step is enabled
\* until the outermost call has returned), and the nesting depth of the
\* result is less than the number of tokens.
C9_StrictSuffix ==
    /\ \A j \in 2..Len(stack) :
           /\ stack[j - 1].i >= 1
           /\ stack[j].tokens =
                  SubSeq(stack[j - 1].tokens, stack[j - 1].i + 1,
                         Len(stack[j - 1].tokens))
           /\ Len(stack[j].tokens) < Len(stack[j - 1].tokens)
    /\ pc = "loop" => Len(stack) <= Len(Tokens)
    /\ pc # "done" => ENABLED NextParam
    /\ pc = "done" => Depth(result.p) < Len(Tokens)

\* a call two levels below the outermost one is running
C9_Witness ==
    /\ pc = "loop"
    /\ Len(stack) = 3
    /\ Len(stack[3].tokens) >= 1

\* C10: the parent keeps scanning after the nested parameter is attached:
\* the root has an argument (flags) whenever an "Ar" ("Fl") token occurs
\* anywhere; in every node hasparameter is set exactly when the child is
\* there, and the child's optional, hasargument and hasflags each imply
\* the parent's.
C10_ParentCoversChild ==
    pc = "done" =>
        /\ result.p.hasargument <=> Sightings(Tokens, StrAr) # {}
        /\ result.p.hasflags <=> Sightings(Tokens, StrFl) # {}
        /\ \A n \in 1..Len(Nodes(result.p)) :
               LET node == Nodes(result.p)[n]
               IN  /\ node.hasparameter <=> node.parameter # <<>>
                   /\ node.parameter # <<>> =>
                          /\ node.parameter[1].optional => node.optional
                          /\ node.parameter[1].hasargument => node.hasargument
                          /\ node.parameter[1].hasflags => node.hasflags

\* the argument macro comes after the nested parameter was attached, and
\* both the root and the nested parameter have the argument
C10_Witness ==
    /\ pc = "done"
    /\ result.p.hasparameter
    /\ result.p.parameter[1].hasargument
    /\ result.p.hasargument
    /\ \A k \in Sightings(Tokens, StrAr) : k > SecondSighting(Tokens, StrOp)

====
